---------------------------- MODULE Spec2Model ----------------------------
(***************************************************************************)
(* Control-flow-graph construction and monotone dataflow analysis of       *)
(* src/plugins/tsanalyzer: the ControlFlowGraph data model, CFGBuilder,    *)
(* the MonotoneDataFlowAnalysis engine and its two instances,              *)
(* ReachingDefinitions and LiveVariables.                                  *)
(*                                                                         *)
(* A function is modelled by its source lines.  Each line carries the      *)
(* statement that starts on it, its indentation, the variable it defines   *)
(* and the variables it reads; the syntax tree the front end hands to the  *)
(* builder is derived from the lines by indentation, as a parser does.     *)
(***************************************************************************)
EXTENDS Integers, Sequences, FiniteSets, TLC

\* ------------------------------------------------------------------ bounds

\* Longest generated function, in source lines (line 1 is the def line).
MaxLines == 4
\* Longest generated function whose dataflow is analysed.
MaxFlowLines == 3
\* build_cfg calls made on one CFGBuilder instance.
MaxBuilds == 2
\* Blocks of a hand-made ControlFlowGraph (ids 0..MaxGraphBlocks-1), and the
\* longest edge list add_edge is called on.
MaxGraphBlocks == 2
MaxEdgeList == 3
\* Blocks and edges of the CFGs the generic engine is run on.
EngineBlocks == 2
EngineEdges == 3
\* Iteration caps given to analyze() besides the default: 0..MaxCap.
MaxCap == 2
\* Depth of the target expression of an assignment.
MaxDepth == 2

NoVar == "none"
NoBlock == -1

\* ---------------------------------------------------- the function's source

\* function.start_line_number: lines are numbered from the def line.
FnStart(fn) == 1

FnEnd(fn) == Len(fn)

Range(s) == {s[i] : i \in DOMAIN s}

Max(S) == CHOOSE x \in S : \A y \in S : y <= x

Min(S) == CHOOSE x \in S : \A y \in S : x <= y

\* Lines that open an indented body on the following lines.
Headers == {"def", "if", "else", "while", "for", "try", "except"}

Loops == {"while", "for"}

DefLine == [kind |-> "def", indent |-> 0, def |-> NoVar, uses |-> {}]

Ln(kind, indent, def, uses) ==
    [kind |-> kind, indent |-> indent, def |-> def, uses |-> uses]

\* Last line of the indented body opened by line i.
BodyEnd(fn, i) ==
    Max({j \in i..Len(fn) : \A k \in (i + 1)..j : fn[k].indent > fn[i].indent})

\* The line of the clause (else, except) that continues the compound
\* statement of line i, 0 when there is none.
ClauseLine(fn, i, clause) ==
    LET n == BodyEnd(fn, i) + 1
    IN  IF n <= Len(fn) /\ fn[n].kind = clause /\ fn[n].indent = fn[i].indent
        THEN n ELSE 0

\* node.end_byte of the statement starting on line i, as a line number.
StmtEnd(fn, i) ==
    CASE fn[i].kind = "if" ->
             IF ClauseLine(fn, i, "else") # 0
             THEN BodyEnd(fn, ClauseLine(fn, i, "else")) ELSE BodyEnd(fn, i)
      [] fn[i].kind \in {"try", "try_return"} ->
             IF ClauseLine(fn, i, "except") # 0
             THEN BodyEnd(fn, ClauseLine(fn, i, "except")) ELSE BodyEnd(fn, i)
      [] fn[i].kind \in {"def", "else", "except", "while", "for"} -> BodyEnd(fn, i)
      [] OTHER -> i

\* The statement kinds the generated functions are written with: simple
\* statements, compound headers and the one-line `if c: return y`.
SimpleTemplates ==
    { [kind |-> "assign", def |-> "x", uses |-> {}],
      [kind |-> "return", def |-> NoVar, uses |-> {"y"}],
      [kind |-> "break", def |-> NoVar, uses |-> {}],
      [kind |-> "continue", def |-> NoVar, uses |-> {}],
      [kind |-> "raise", def |-> NoVar, uses |-> {}],
      [kind |-> "if_return", def |-> NoVar, uses |-> {"x"}] }

HeaderTemplates ==
    { [kind |-> "if", def |-> NoVar, uses |-> {"x"}],
      [kind |-> "else", def |-> NoVar, uses |-> {}],
      [kind |-> "while", def |-> NoVar, uses |-> {"x"}],
      [kind |-> "for", def |-> "x", uses |-> {"x", "y"}],
      [kind |-> "try", def |-> NoVar, uses |-> {}],
      [kind |-> "except", def |-> NoVar, uses |-> {}] }

\* A line of a function of MaxLines lines is indented MaxLines - 1 at most.
LinesOf(templates) ==
    {Ln(t.kind, d, t.def, t.uses) : t \in templates, d \in 1..(MaxLines - 1)}

\* The last line of p at indentation <= d (line 1, the def line, is at 0).
Opener(p, d) == Max({j \in 1..Len(p) : p[j].indent <= d})

\* Whether line l may follow the lines p in a well-formed function.
OkNext(p, l) ==
    LET prev == p[Len(p)]
    IN  /\ IF prev.kind \in Headers
           THEN l.indent = prev.indent + 1
           ELSE l.indent \in 1..prev.indent
        /\ l.kind \in {"else", "except"} =>
              /\ prev.indent > l.indent
              /\ p[Opener(p, l.indent)].indent = l.indent
              /\ p[Opener(p, l.indent)].kind =
                     (IF l.kind = "else" THEN "if" ELSE "try")
        /\ l.kind \in {"break", "continue"} =>
              \E j \in 1..Len(p) : /\ p[j].kind \in Loops
                                   /\ p[j].indent < l.indent
                                   /\ BodyEnd(p, j) = Len(p)

\* Whether p is a whole function: no header without a body, no try without
\* its except clause.
Complete(p) ==
    /\ p[Len(p)].kind \notin Headers
    /\ \A j \in 1..Len(p) : p[j].kind = "try" => ClauseLine(p, j, "except") # 0

RECURSIVE Prefixes(_, _)
Prefixes(lines, n) ==
    IF n = 1 THEN {<<DefLine>>}
    ELSE UNION { {Append(p, l) : l \in {m \in lines : OkNext(p, m)}}
                 : p \in Prefixes(lines, n - 1) }

FunctionsUpTo(lines, n) ==
    UNION { {p \in Prefixes(lines, k) : Complete(p)} : k \in 2..n }

\* ------------------------------------------------------- the syntax tree

Node(type, line, end_line) == [type |-> type, line |-> line, end_line |-> end_line]

\* The typed nodes that start on line i, parent before child: the order of
\* find_all_nodes and find_nodes_by_type.
NodesAt(fn, i) ==
    LET k == fn[i].kind
        e == StmtEnd(fn, i)
    IN  CASE k = "def" -> <<Node("function_definition", i, e)>>
          [] k = "assign" -> <<Node("expression_statement", i, i),
                               Node("assignment", i, i)>>
          [] k = "return" -> <<Node("return_statement", i, i)>>
          [] k = "break" -> <<Node("break_statement", i, i)>>
          [] k = "continue" -> <<Node("continue_statement", i, i)>>
          [] k = "raise" -> <<Node("raise_statement", i, i)>>
          [] k = "if_return" -> <<Node("if_statement", i, i),
                                  Node("return_statement", i, i)>>
          [] k = "if" -> <<Node("if_statement", i, e)>>
          [] k = "else" -> <<Node("else_clause", i, e)>>
          [] k = "while" -> <<Node("while_statement", i, e)>>
          [] k = "for" -> <<Node("for_statement", i, e)>>
          [] k = "try" -> <<Node("try_statement", i, e)>>
          [] k = "try_return" -> <<Node("try_statement", i, e),
                                   Node("return_statement", i, i)>>
          [] k = "except" -> <<Node("except_clause", i, e)>>

RECURSIVE NodesFrom(_, _, _)
NodesFrom(fn, i, last) ==
    IF i > last \/ i > Len(fn) THEN <<>>
    ELSE NodesAt(fn, i) \o NodesFrom(fn, i + 1, last)

\* find_all_nodes(function.parse_tree_root_node)
AllNodes(fn) == NodesFrom(fn, 1, Len(fn))

SelectNodes(nodes, types) == SelectSeq(nodes, LAMBDA n : n.type \in types)

\* _find_else_clause: the else_clause child of an if statement, as its line
\* (0: none).
FindElseClause(fn, stmt) ==
    IF fn[stmt.line].kind = "if" THEN ClauseLine(fn, stmt.line, "else") ELSE 0

\* _find_loop_body: the block child of a loop statement, as its line.
FindLoopBody(fn, stmt) == stmt.line + 1

\* ------------------------------------------------------------ expressions

\* A node of an expression: its type, its text when it is an identifier, its
\* children.
TreeNode(type, text, children) == [type |-> type, text |-> text, children |-> children]

Identifier(name) == TreeNode("identifier", name, <<>>)

NoNode == TreeNode("none", "", <<>>)

Names == {"a", "y"}

\* The primary expressions of depth up to d: a, y, and e.b, e[0] for the
\* smaller e.
RECURSIVE Expressions(_)
Expressions(d) ==
    IF d = 0 THEN {Identifier(n) : n \in Names}
    ELSE {Identifier(n) : n \in Names}
         \cup {TreeNode("attribute", "", <<e, TreeNode(".", "", <<>>), Identifier("b")>>) :
                   e \in Expressions(d - 1)}
         \cup {TreeNode("subscript", "", <<e, TreeNode("integer", "", <<>>)>>) :
                   e \in Expressions(d - 1)}

\* The right-hand sides: a smaller expression or a literal.
RightSides == Expressions(MaxDepth - 1) \cup {TreeNode("integer", "", <<>>)}

\* left = right and left += right, and a, y = right
AssignmentNodes ==
    {TreeNode(type, "", <<left, TreeNode("=", "", <<>>), right>>) :
        type \in {"assignment", "augmented_assignment"},
        left \in Expressions(MaxDepth),
        right \in RightSides}
    \cup {TreeNode("assignment", "",
                   <<TreeNode("pattern_list", "", <<Identifier("a"), Identifier("b")>>),
                     TreeNode("=", "", <<>>), right>>) :
              right \in RightSides}

\* The child _get_assignment_target returns at.
IsTargetChild(child) ==
    \/ child.type = "identifier"
    \/ /\ child.type \in {"attribute", "subscript"}
       /\ child.children # <<>>
       /\ child.children[1].type = "identifier"

\* _get_assignment_target: the children are walked in order, the right-hand
\* side included; NoVar for None.
_get_assignment_target(node) ==
    LET hits == {i \in DOMAIN node.children : IsTargetChild(node.children[i])}
    IN  IF hits = {} THEN NoVar
        ELSE LET child == node.children[Min(hits)]
             IN  IF child.type = "identifier" THEN child.text
                 ELSE child.children[1].text

\* ------------------------------------------------ BasicBlock, ControlFlowGraph

BlockTypes ==
    {"entry", "exit", "normal", "conditional", "loop_header", "loop_body",
     "exception"}

BasicBlock(id, start_line, end_line, block_type, statements) ==
    [id |-> id, start_line |-> start_line, end_line |-> end_line,
     block_type |-> block_type, statements |-> statements,
     predecessors |-> {}, successors |-> {}]

\* ControlFlowGraph.__init__: blocks is the dict in insertion order.
EmptyCfg ==
    [blocks |-> <<>>, entry_block |-> NoBlock, exit_blocks |-> {}, edges |-> <<>>]

BlockIds(c) == {c.blocks[i].id : i \in DOMAIN c.blocks}

\* cfg.blocks[id]
BlockOf(c, id) == c.blocks[CHOOSE i \in DOMAIN c.blocks : c.blocks[i].id = id]

\* list(cfg.blocks.keys())
BlockOrder(c) == [i \in DOMAIN c.blocks |-> c.blocks[i].id]

\* The block stored without recording it as the entry block.
add_block_EntryNotRecorded(c, block) ==
    LET stored == IF block.id \in BlockIds(c)
                  THEN [i \in DOMAIN c.blocks |->
                           IF c.blocks[i].id = block.id THEN block ELSE c.blocks[i]]
                  ELSE Append(c.blocks, block)
    IN  [c EXCEPT !.blocks = stored,
                  !.exit_blocks = IF block.block_type = "exit" THEN @ \cup {block.id}
                                  ELSE @]

\* The block stored without recording it among the exit blocks.
add_block_ExitNotRecorded(c, block) ==
    LET stored == IF block.id \in BlockIds(c)
                  THEN [i \in DOMAIN c.blocks |->
                           IF c.blocks[i].id = block.id THEN block ELSE c.blocks[i]]
                  ELSE Append(c.blocks, block)
    IN  [c EXCEPT !.blocks = stored,
                  !.entry_block = IF block.block_type = "entry" THEN block.id ELSE @]

add_block(c, block) ==
    LET stored == IF block.id \in BlockIds(c)
                  THEN [i \in DOMAIN c.blocks |->
                           IF c.blocks[i].id = block.id THEN block ELSE c.blocks[i]]
                  ELSE Append(c.blocks, block)
    IN  [c EXCEPT !.blocks = stored,
                  !.entry_block = IF block.block_type = "entry" THEN block.id ELSE @,
                  !.exit_blocks = IF block.block_type = "exit" THEN @ \cup {block.id}
                                  ELSE @]

\* The edge is appended whether or not the list already holds it.
add_edge(c, from_id, to_id) ==
    IF from_id \in BlockIds(c) /\ to_id \in BlockIds(c)
    THEN [c EXCEPT
            !.blocks = [i \in DOMAIN c.blocks |->
                [c.blocks[i] EXCEPT
                   !.successors = IF c.blocks[i].id = from_id
                                  THEN @ \cup {to_id} ELSE @,
                   !.predecessors = IF c.blocks[i].id = to_id
                                    THEN @ \cup {from_id} ELSE @]],
            !.edges = Append(c.edges, <<from_id, to_id>>)]
    ELSE c

\* list.remove: the first occurrence of x only.
ListRemove(s, x) ==
    LET k == Min({i \in DOMAIN s : s[i] = x})
    IN  [i \in 1..(Len(s) - 1) |-> IF i < k THEN s[i] ELSE s[i + 1]]

\* remove_edge that forgets the predecessor side.
remove_edge_SuccessorOnly(c, from_id, to_id) ==
    IF from_id \in BlockIds(c) /\ to_id \in BlockIds(c)
    THEN [c EXCEPT
            !.blocks = [i \in DOMAIN c.blocks |->
                [c.blocks[i] EXCEPT
                   !.successors = IF c.blocks[i].id = from_id
                                  THEN @ \ {to_id} ELSE @]],
            !.edges = IF <<from_id, to_id>> \in Range(c.edges)
                      THEN ListRemove(c.edges, <<from_id, to_id>>) ELSE @]
    ELSE c

remove_edge(c, from_id, to_id) ==
    IF from_id \in BlockIds(c) /\ to_id \in BlockIds(c)
    THEN [c EXCEPT
            !.blocks = [i \in DOMAIN c.blocks |->
                [c.blocks[i] EXCEPT
                   !.successors = IF c.blocks[i].id = from_id
                                  THEN @ \ {to_id} ELSE @,
                   !.predecessors = IF c.blocks[i].id = to_id
                                    THEN @ \ {from_id} ELSE @]],
            !.edges = IF <<from_id, to_id>> \in Range(c.edges)
                      THEN ListRemove(c.edges, <<from_id, to_id>>) ELSE @]
    ELSE c

\* The successors handed out as the predecessors.
get_predecessors_Successors(c, block_id) ==
    IF block_id \notin BlockIds(c) THEN {}
    ELSE {sid \in BlockOf(c, block_id).successors : sid \in BlockIds(c)}

\* The ids of get_predecessors(block_id): predecessors that are blocks.
get_predecessors(c, block_id) ==
    IF block_id \notin BlockIds(c) THEN {}
    ELSE {pid \in BlockOf(c, block_id).predecessors : pid \in BlockIds(c)}

get_successors(c, block_id) ==
    IF block_id \notin BlockIds(c) THEN {}
    ELSE {sid \in BlockOf(c, block_id).successors : sid \in BlockIds(c)}

get_edge_count(c) == Len(c.edges)

\* ------------------------------------------------------------- CFGBuilder

\* The control types with the raise statement among them.
ControlTypes_WithRaise ==
    {"if_statement", "while_statement", "for_statement", "try_statement",
     "return_statement", "break_statement", "continue_statement", "raise_statement"}

ControlTypes ==
    {"if_statement", "while_statement", "for_statement", "try_statement",
     "return_statement", "break_statement", "continue_statement"}

LoopTypes == {"while_statement", "for_statement"}

\* _get_statement_types
StatementTypes ==
    {"expression_statement", "assignment", "call", "return_statement",
     "if_statement", "while_statement", "for_statement", "break_statement",
     "continue_statement", "try_statement", "with_statement", "assert_statement",
     "pass_statement", "delete_statement", "raise_statement", "import_statement",
     "import_from_statement", "global_statement", "nonlocal_statement"}

TransferTypes ==
    {"return_statement", "break_statement", "continue_statement", "raise_statement"}

\* The leaders one control statement contributes.
StatementLeaders(fn, stmt) ==
    {stmt.line}
    \cup (IF stmt.type = "if_statement"
          THEN {stmt.line + 1}
               \cup (IF FindElseClause(fn, stmt) # 0
                     THEN {FindElseClause(fn, stmt)} ELSE {})
          ELSE {})
    \cup (IF stmt.type \in LoopTypes THEN {FindLoopBody(fn, stmt)} ELSE {})
    \cup (IF stmt.end_line < FnEnd(fn) THEN {stmt.end_line + 1} ELSE {})

_identify_leaders(fn) ==
    {FnStart(fn)}
    \cup UNION {StatementLeaders(fn, stmt) :
                    stmt \in Range(SelectNodes(AllNodes(fn), ControlTypes))}

\* sorted(leaders)
Sorted(S) ==
    [i \in 1..Cardinality(S) |->
        CHOOSE x \in S : Cardinality({y \in S : y < x}) = i - 1]

\* The loop test with the loop's last line left out.
_is_in_loop_body_Strict(fn, line) ==
    \E loop \in Range(SelectNodes(AllNodes(fn), LoopTypes)) :
        loop.line < line /\ line < loop.end_line

_is_in_loop_body(fn, line) ==
    \E loop \in Range(SelectNodes(AllNodes(fn), LoopTypes)) :
        loop.line < line /\ line <= loop.end_line

\* The first node starting on the line that is an if, a loop, a return or a
\* try statement decides; else the loop test.
_determine_block_type(fn, line) ==
    IF line = FnStart(fn) THEN "entry"
    ELSE LET typed == SelectNodes(NodesFrom(fn, line, line),
                          {"if_statement", "while_statement", "for_statement",
                           "return_statement", "try_statement"})
         IN  IF typed # <<>>
             THEN CASE typed[1].type = "if_statement" -> "conditional"
                    [] typed[1].type \in LoopTypes -> "loop_header"
                    [] typed[1].type = "return_statement" -> "exit"
                    [] typed[1].type = "try_statement" -> "exception"
             ELSE IF _is_in_loop_body(fn, line) THEN "loop_body" ELSE "normal"

_get_statements_in_range(fn, start_line, end_line) ==
    SelectNodes(NodesFrom(fn, start_line, end_line), StatementTypes)

\* The blocks, in leader order, with ids counted from block_counter.
_create_basic_blocks(fn, leaders, block_counter) ==
    LET sorted_leaders == Sorted(leaders)
        n == Len(sorted_leaders)
    IN  [i \in 1..n |->
            LET leader == sorted_leaders[i]
                end_line == IF i + 1 <= n THEN sorted_leaders[i + 1] - 1
                            ELSE FnEnd(fn)
            IN  BasicBlock(block_counter + i - 1, leader, end_line,
                           _determine_block_type(fn, leader),
                           _get_statements_in_range(fn, leader, end_line))]

\* The test without the raise statement.
_has_explicit_control_transfer_NoRaise(block) ==
    \E i \in DOMAIN block.statements :
        block.statements[i].type \in TransferTypes \ {"raise_statement"}

_has_explicit_control_transfer(block) ==
    \E i \in DOMAIN block.statements : block.statements[i].type \in TransferTypes

\* next((b for b in blocks if ...), None): the id of the first block of the
\* list among those at the positions hits, NoBlock if there is none.
FirstBlock(blocks, hits) ==
    IF hits = {} THEN NoBlock ELSE blocks[Min(hits)].id

_find_next_block(current_block, blocks) ==
    FirstBlock(blocks, {i \in DOMAIN blocks :
                            blocks[i].start_line > current_block.end_line})

_find_block_by_line(blocks, line) ==
    FirstBlock(blocks, {i \in DOMAIN blocks :
                            blocks[i].start_line <= line /\ line <= blocks[i].end_line})

\* The edge recorded whether or not the target was found.
EdgeIfFound_Unguarded(c, from_id, to_id) ==
    IF to_id # NoBlock THEN add_edge(c, from_id, to_id)
    ELSE [c EXCEPT !.edges = Append(@, <<from_id, to_id>>)]

\* add_edge when the target was found.
EdgeIfFound(c, from_id, to_id) ==
    IF to_id # NoBlock THEN add_edge(c, from_id, to_id) ELSE c

\* The false branch without else clause taken from the end of the block of
\* the if line, not from the end of the if statement.
_handle_conditional_edges_AfterHeader(c, fn, block, blocks) ==
    LET ifs == SelectNodes(block.statements, {"if_statement"})
    IN  IF ifs = <<>> THEN c
        ELSE LET stmt == ifs[1]
                 c1 == EdgeIfFound(c, block.id, _find_next_block(block, blocks))
                 else_line == FindElseClause(fn, stmt)
             IN  IF else_line # 0
                 THEN EdgeIfFound(c1, block.id, _find_block_by_line(blocks, else_line))
                 ELSE EdgeIfFound(c1, block.id,
                                  _find_block_by_line(blocks, block.end_line + 1))

_handle_conditional_edges(c, fn, block, blocks) ==
    LET ifs == SelectNodes(block.statements, {"if_statement"})
    IN  IF ifs = <<>> THEN c
        ELSE LET stmt == ifs[1]
                 c1 == EdgeIfFound(c, block.id, _find_next_block(block, blocks))
                 else_line == FindElseClause(fn, stmt)
             IN  IF else_line # 0
                 THEN EdgeIfFound(c1, block.id, _find_block_by_line(blocks, else_line))
                 ELSE EdgeIfFound(c1, block.id,
                                  _find_block_by_line(blocks, stmt.end_line + 1))

\* The back edge added from whatever block follows the header.
_handle_loop_edges_AlwaysBack(c, fn, block, blocks) ==
    LET loop_body == _find_next_block(block, blocks)
        c1 == EdgeIfFound(c, block.id, loop_body)
        loops == SelectNodes(block.statements, LoopTypes)
        c2 == IF loops = <<>> THEN c1
              ELSE EdgeIfFound(c1, block.id,
                               _find_block_by_line(blocks, loops[1].end_line + 1))
    IN  IF loop_body # NoBlock
        THEN add_edge(c2, loop_body, block.id)
        ELSE c2

_handle_loop_edges(c, fn, block, blocks) ==
    LET loop_body == _find_next_block(block, blocks)
        c1 == EdgeIfFound(c, block.id, loop_body)
        loops == SelectNodes(block.statements, LoopTypes)
        c2 == IF loops = <<>> THEN c1
              ELSE EdgeIfFound(c1, block.id,
                               _find_block_by_line(blocks, loops[1].end_line + 1))
    IN  IF loop_body # NoBlock /\ BlockOf(c, loop_body).block_type = "loop_body"
        THEN add_edge(c2, loop_body, block.id)
        ELSE c2

\* One round of the loop of _build_edges, for the i-th block of the list.
BlockEdges(c, fn, blocks, i) ==
    LET block == blocks[i]
        c1 == IF i + 1 <= Len(blocks) /\ block.block_type # "exit"
                 /\ ~_has_explicit_control_transfer(block)
              THEN add_edge(c, block.id, blocks[i + 1].id)
              ELSE c
    IN  CASE block.block_type = "conditional" ->
                 _handle_conditional_edges(c1, fn, block, blocks)
          [] block.block_type = "loop_header" ->
                 _handle_loop_edges(c1, fn, block, blocks)
          [] OTHER -> c1

RECURSIVE EdgesFrom(_, _, _, _)
EdgesFrom(c, fn, blocks, i) ==
    IF i > Len(blocks) THEN c
    ELSE EdgesFrom(BlockEdges(c, fn, blocks, i), fn, blocks, i + 1)

_build_edges(c, fn) == EdgesFrom(c, fn, c.blocks, 1)

RECURSIVE AddBlocks(_, _, _)
AddBlocks(c, blocks, i) ==
    IF i > Len(blocks) THEN c
    ELSE AddBlocks(add_block(c, blocks[i]), blocks, i + 1)

\* build_cfg: the graph of fn, its ids counted from the builder's counter.
build_cfg(fn, block_counter) ==
    LET leaders == _identify_leaders(fn)
        blocks == _create_basic_blocks(fn, leaders, block_counter)
    IN  _build_edges(AddBlocks(EmptyCfg, blocks, 1), fn)

\* ------------------------------------------------- StatementFactExtractor

Definition(variable, line, block_id) ==
    [variable |-> variable, line |-> line, block_id |-> block_id]

\* extract_definitions_from_node: the definitions in the subtree of node,
\* which spans the lines node.line..node.end_line, tagged with block_id.
extract_definitions_from_node(fn, node, block_id) ==
    {Definition(fn[l].def, l, block_id) :
        l \in {k \in node.line..node.end_line : fn[k].def # NoVar}}

\* extract_uses_from_node, as the variables read in the subtree of node.
extract_uses_from_node(fn, node) ==
    UNION {fn[l].uses : l \in node.line..node.end_line}

_find_definitions_in_block(fn, block) ==
    UNION {extract_definitions_from_node(fn, block.statements[i], block.id) :
               i \in DOMAIN block.statements}

_find_uses_in_block(fn, block) ==
    UNION {extract_uses_from_node(fn, block.statements[i]) :
               i \in DOMAIN block.statements}

Variables(defs) == {d.variable : d \in defs}

\* ---------------------------------------------------- ReachingDefinitions

RDGen(fn, c, block_id) == _find_definitions_in_block(fn, BlockOf(c, block_id))

\* KILL without the test other_block_id != block_id.
RDKill_OwnBlockToo(fn, c, block_id) ==
    LET definitions == _find_definitions_in_block(fn, BlockOf(c, block_id))
    IN  UNION {{other_defn \in _find_definitions_in_block(fn, BlockOf(c, other)) :
                    other_defn.variable \in Variables(definitions)} :
               other \in BlockIds(c)}

RDKill(fn, c, block_id) ==
    LET definitions == _find_definitions_in_block(fn, BlockOf(c, block_id))
    IN  UNION {{other_defn \in _find_definitions_in_block(fn, BlockOf(c, other)) :
                    other_defn.variable \in Variables(definitions)} :
               other \in BlockIds(c) \ {block_id}}

\* -------------------------------------------------------- LiveVariables

\* KILL that keeps a defined variable only when the block does not read it.
LVKill_UnreadOnly(fn, c, block_id) ==
    Variables(_find_definitions_in_block(fn, BlockOf(c, block_id)))
        \ _find_uses_in_block(fn, BlockOf(c, block_id))

LVKill(fn, c, block_id) ==
    Variables(_find_definitions_in_block(fn, BlockOf(c, block_id)))

\* GEN as every variable used in the block, defined there or not.
LVGen_AllUses(fn, c, block_id) == _find_uses_in_block(fn, BlockOf(c, block_id))

LVGen(fn, c, block_id) ==
    _find_uses_in_block(fn, BlockOf(c, block_id)) \ LVKill(fn, c, block_id)

\* ------------------------------------------- MonotoneDataFlowAnalysis

\* The meet taken as intersection.
_meet_operation_Intersection(sets) ==
    {x \in UNION sets : \A s \in sets : x \in s}

\* _meet_operation of both instances: the union of the list's sets.
_meet_operation(sets) == UNION sets

\* _transfer_function of both instances: GEN[B] \cup (input - KILL[B]).
\* The transfer function with the operands of the difference exchanged.
_transfer_function_KillLessIn(gen, kill, block_id, in_set) ==
    gen[block_id] \cup (kill[block_id] \ in_set)

\* GEN handed out only while nothing has come in.
_transfer_function_GenWhenEmpty(gen, kill, block_id, in_set) ==
    IF in_set = {} THEN gen[block_id] ELSE in_set \ kill[block_id]

_transfer_function(gen, kill, block_id, in_set) ==
    gen[block_id] \cup (in_set \ kill[block_id])

Reverse(s) == [i \in DOMAIN s |-> s[Len(s) + 1 - i]]

\* The forward visit taking a changed IN set, not OUT, for a change.
VisitForward_ChangedIn(c, gen, kill, st, block_id) ==
    LET old_in == st.in_sets[block_id]
        predecessor_outs == {st.out_sets[p] : p \in get_predecessors(c, block_id)}
        new_in == IF get_predecessors(c, block_id) # {}
                  THEN UNION predecessor_outs ELSE {}
        new_out == gen[block_id] \cup (new_in \ kill[block_id])
    IN  [in_sets |-> [st.in_sets EXCEPT ![block_id] = new_in],
         out_sets |-> [st.out_sets EXCEPT ![block_id] = new_out],
         changed |-> st.changed \/ new_in # old_in]

\* One visit of the loop body of _analyze_forward: st holds in_sets,
\* out_sets and changed.
VisitForward(c, gen, kill, st, block_id) ==
    LET old_out == st.out_sets[block_id]
        predecessor_outs == {st.out_sets[p] : p \in get_predecessors(c, block_id)}
        new_in == IF get_predecessors(c, block_id) # {}
                  THEN _meet_operation(predecessor_outs) ELSE {}
        new_out == _transfer_function(gen, kill, block_id, new_in)
    IN  [in_sets |-> [st.in_sets EXCEPT ![block_id] = new_in],
         out_sets |-> [st.out_sets EXCEPT ![block_id] = new_out],
         changed |-> st.changed \/ new_out # old_out]

\* The backward visit reading the predecessors, as the forward one does.
VisitBackward_Predecessors(c, gen, kill, st, block_id) ==
    LET old_in == st.in_sets[block_id]
        successor_ins == {st.in_sets[x] : x \in get_predecessors(c, block_id)}
        new_out == IF get_predecessors(c, block_id) # {}
                   THEN _meet_operation(successor_ins) ELSE {}
        new_in == _transfer_function(gen, kill, block_id, new_out)
    IN  [in_sets |-> [st.in_sets EXCEPT ![block_id] = new_in],
         out_sets |-> [st.out_sets EXCEPT ![block_id] = new_out],
         changed |-> st.changed \/ new_in # old_in]

\* One visit of the loop body of _analyze_backward.
VisitBackward(c, gen, kill, st, block_id) ==
    LET old_in == st.in_sets[block_id]
        successor_ins == {st.in_sets[x] : x \in get_successors(c, block_id)}
        new_out == IF get_successors(c, block_id) # {}
                   THEN _meet_operation(successor_ins) ELSE {}
        new_in == _transfer_function(gen, kill, block_id, new_out)
    IN  [in_sets |-> [st.in_sets EXCEPT ![block_id] = new_in],
         out_sets |-> [st.out_sets EXCEPT ![block_id] = new_out],
         changed |-> st.changed \/ new_in # old_in]

\* The blocks in the order a pass visits them: insertion order forward,
\* reversed backward.
VisitOrder(c, forward) ==
    IF forward THEN BlockOrder(c) ELSE Reverse(BlockOrder(c))

RECURSIVE VisitFrom(_, _, _, _, _, _, _)
VisitFrom(c, gen, kill, forward, order, st, i) ==
    IF i > Len(order) THEN st
    ELSE LET visited == {IF forward THEN VisitForward(c, gen, kill, s, order[i])
                         ELSE VisitBackward(c, gen, kill, s, order[i]) : s \in {st}}
         IN  VisitFrom(c, gen, kill, forward, order,
                       CHOOSE after \in visited : TRUE, i + 1)

\* One round of the while loop: changed is cleared, then every block of the
\* order is visited.
RunPass(c, gen, kill, forward, order, ins, outs) ==
    VisitFrom(c, gen, kill, forward, order,
              [in_sets |-> ins, out_sets |-> outs, changed |-> FALSE], 1)

\* Every block starting with every element of the GEN and KILL sets.
InitialSets_Full(c) == [id \in BlockIds(c) |-> {"d1"}]

\* analyze(): every block starts with empty IN and OUT.
InitialSets(c) == [id \in BlockIds(c) |-> {}]

\* ---------------------------------------------------------------- inputs

\* x = 1; y = x + 1; if y > 0: z = y else: z = 0; return z
WorkedExample ==
    << DefLine,
       Ln("assign", 1, "x", {}),
       Ln("assign", 1, "y", {"x"}),
       Ln("if", 1, NoVar, {"y"}),
       Ln("assign", 2, "z", {"y"}),
       Ln("else", 1, NoVar, {}),
       Ln("assign", 2, "z", {}),
       Ln("return", 1, NoVar, {"z"}) >>

\* `if c: A else: B` followed by C, after the statements pre.
IfElseThen(pre, A, B, C) ==
    <<DefLine>> \o pre \o <<Ln("if", 1, NoVar, {"x"})>> \o A
        \o <<Ln("else", 1, NoVar, {})>> \o B \o <<C>>

IfElseShapes ==
    LET a1 == Ln("assign", 1, "x", {})
        a2 == Ln("assign", 2, "x", {})
        r1 == Ln("return", 1, NoVar, {"y"})
    IN  {IfElseThen(pre, A, B, C) :
            pre \in {<<>>, <<a1>>}, A \in {<<a2>>, <<a2, a2>>},
            B \in {<<a2>>, <<a2, a2>>}, C \in {a1, r1}}

\* `while c: B` followed by C, after the statements pre.
WhileThen(pre, B, C) ==
    <<DefLine>> \o pre \o <<Ln("while", 1, NoVar, {"x"})>> \o B \o <<C>>

WhileShapes ==
    LET a1 == Ln("assign", 1, "x", {})
        a2 == Ln("assign", 2, "x", {})
        r1 == Ln("return", 1, NoVar, {"y"})
    IN  {WhileThen(pre, B, C) :
            pre \in {<<>>, <<a1>>}, B \in {<<a2>>, <<a2, a2>>}, C \in {a1, r1}}

\* `try: A except: B`, alone and followed by C.
TryShapes ==
    LET a1 == Ln("assign", 1, "x", {})
        a2 == Ln("assign", 2, "x", {})
        r1 == Ln("return", 1, NoVar, {"y"})
        r2 == Ln("return", 2, NoVar, {"y"})
    IN  {<<DefLine, Ln("try", 1, NoVar, {})>> \o A
            \o <<Ln("except", 1, NoVar, {})>> \o B \o C :
            A \in {<<a2>>, <<r2>>}, B \in {<<a2>>, <<r2>>},
            C \in {<<>>, <<a1>>, <<r1>>}}

\* A try statement whose body is a return on the line of the try keyword
\* (try: return y), then the except clause.
TryReturnShapes ==
    {<<DefLine, Ln("try_return", 1, NoVar, {"y"}), Ln("except", 1, NoVar, {}),
       Ln("assign", 2, "x", {})>> \o C :
        C \in {<<>>, <<Ln("assign", 1, "x", {})>>}}

\* The functions CFGs are built of.
Functions ==
    FunctionsUpTo(LinesOf(SimpleTemplates \cup HeaderTemplates), MaxLines)
        \cup IfElseShapes \cup WhileShapes \cup TryShapes \cup TryReturnShapes
        \cup {WorkedExample}

\* The functions whose CFGs are analysed: a second variable is written.
FlowFunctions ==
    FunctionsUpTo(LinesOf(SimpleTemplates \cup HeaderTemplates
                          \cup {[kind |-> "assign", def |-> "y", uses |-> {"x"}]}),
                  MaxFlowLines)
        \cup {WorkedExample}

\* ----------------------------------------------------------------- state

VARIABLES
    function,        \* the Function handed to build_cfg
    block_counter,   \* CFGBuilder.block_counter
    builds,          \* build_cfg calls made on the builder
    cfg,             \* the ControlFlowGraph
    last_call,       \* the last add_edge / remove_edge call made on cfg
    analysis,        \* the class of the analysis instance
    gen_sets, kill_sets, in_sets, out_sets,
    changed, iteration, max_iterations,   \* locals of _analyze_*
    previous,        \* what the instance's previous analyze() call returned
    assignment_node, \* the node handed to _get_assignment_target
    target,          \* what _get_assignment_target returned for it
    pc

vars == <<function, block_counter, builds, cfg, last_call, analysis,
          gen_sets, kill_sets, in_sets, out_sets,
          changed, iteration, max_iterations, previous,
          assignment_node, target, pc>>

engineVars == <<analysis, gen_sets, kill_sets, in_sets, out_sets,
                changed, iteration, max_iterations, previous>>

NoCall == [op |-> "none", from_id |-> NoBlock, to_id |-> NoBlock, was_edge |-> FALSE]

\* The record of a call: was_edge tells whether to_id was a successor of
\* from_id when the call was made.
Call(op, c, from_id, to_id) ==
    [op |-> op, from_id |-> from_id, to_id |-> to_id,
     was_edge |-> from_id \in BlockIds(c) /\ to_id \in BlockOf(c, from_id).successors]

EmptyDict == [id \in {} |-> {}]

\* analyze(max_iterations: int = 100)
DefaultMaxIterations == 100

\* No analyze() call has returned on the instance yet.
NoResult ==
    [returned |-> FALSE, converged |-> FALSE,
     in_sets |-> EmptyDict, out_sets |-> EmptyDict]

NoAnalysis ==
    /\ analysis = "none"
    /\ gen_sets = EmptyDict /\ kill_sets = EmptyDict
    /\ in_sets = EmptyDict /\ out_sets = EmptyDict
    /\ changed = FALSE /\ iteration = 0 /\ max_iterations = 0
    /\ previous = NoResult

\* A CFGBuilder and the function it is about to be given.
InitBuilder(fns) ==
    /\ function \in fns
    /\ block_counter = 0
    /\ builds = 0
    /\ cfg = EmptyCfg
    /\ last_call = NoCall
    /\ assignment_node = NoNode /\ target = NoVar
    /\ NoAnalysis
    /\ pc = "ready"

\* cfg = CFGBuilder.build_cfg(function)
BuildCfg ==
    /\ pc \in {"ready", "built"}
    /\ builds < MaxBuilds
    /\ cfg' = build_cfg(function, block_counter)
    /\ block_counter' = block_counter + Len(cfg'.blocks)
    /\ builds' = builds + 1
    /\ pc' = "built"
    /\ UNCHANGED <<assignment_node, target, function, last_call>>
    /\ UNCHANGED engineVars

IsForward(a) == a \in {"ReachingDefinitions", "GenKillForward"}

\* MonotoneDataFlowAnalysis.__init__ with the GEN and KILL sets of the class.
Construct(class, gen, kill) ==
    /\ analysis' = class
    /\ gen_sets' = gen
    /\ kill_sets' = kill
    /\ in_sets' = EmptyDict
    /\ out_sets' = EmptyDict
    /\ changed' = FALSE /\ iteration' = 0 /\ max_iterations' = 0
    /\ previous' = NoResult
    /\ pc' = "constructed"
    /\ UNCHANGED <<assignment_node, target, function, block_counter, builds, cfg, last_call>>

\* ReachingDefinitions(cfg, ts_analyzer)
NewReachingDefinitions ==
    /\ pc \in {"built", "returned"}
    /\ Construct("ReachingDefinitions",
                 [id \in BlockIds(cfg) |-> RDGen(function, cfg, id)],
                 [id \in BlockIds(cfg) |-> RDKill(function, cfg, id)])

\* LiveVariables(cfg, ts_analyzer)
NewLiveVariables ==
    /\ pc \in {"built", "returned"}
    /\ Construct("LiveVariables",
                 [id \in BlockIds(cfg) |-> LVGen(function, cfg, id)],
                 [id \in BlockIds(cfg) |-> LVKill(function, cfg, id)])

\* analyze(m), up to the while loop.
Analyze(m) ==
    /\ pc = "constructed"
    /\ in_sets' = InitialSets(cfg)
    /\ out_sets' = InitialSets(cfg)
    /\ changed' = TRUE
    /\ iteration' = 0
    /\ max_iterations' = m
    /\ pc' = "analyze"
    /\ UNCHANGED <<assignment_node, target, function, block_counter, builds, cfg, last_call,
                   analysis, gen_sets, kill_sets, previous>>

AnalyzeDefault == Analyze(DefaultMaxIterations)

\* analyze() called once more on the instance, with the same argument, after
\* it returned: the sets are emptied and the loop starts over.
AnalyzeAgain ==
    /\ pc = "returned"
    /\ ~previous.returned
    /\ previous' = [returned |-> TRUE, converged |-> ~changed,
                    in_sets |-> in_sets, out_sets |-> out_sets]
    /\ in_sets' = InitialSets(cfg)
    /\ out_sets' = InitialSets(cfg)
    /\ changed' = TRUE
    /\ iteration' = 0
    /\ pc' = "analyze"
    /\ UNCHANGED <<assignment_node, target, function, block_counter, builds, cfg, last_call,
                   analysis, gen_sets, kill_sets, max_iterations>>

\* The loop condition with the cap itself allowed.
LoopContinues_CapIncluded == changed /\ iteration <= max_iterations

\* while changed and iteration < max_iterations
LoopContinues == changed /\ iteration < max_iterations

\* A round of the loop whose transfer function updates the GEN set in place
\* (set.update for set.union).
Pass_TransferInPlace ==
    /\ pc = "analyze"
    /\ LoopContinues
    /\ LET st == RunPass(cfg, gen_sets, kill_sets, IsForward(analysis),
                         VisitOrder(cfg, IsForward(analysis)), in_sets, out_sets)
       IN  /\ in_sets' = st.in_sets
           /\ out_sets' = st.out_sets
           /\ changed' = st.changed
           /\ gen_sets' = IF IsForward(analysis) THEN st.out_sets ELSE st.in_sets
    /\ iteration' = iteration + 1
    /\ UNCHANGED <<assignment_node, target, function, block_counter, builds, cfg, last_call,
                   analysis, kill_sets, max_iterations, previous, pc>>

\* One round of the while loop of _analyze_forward / _analyze_backward.
Pass ==
    /\ pc = "analyze"
    /\ LoopContinues
    /\ LET st == RunPass(cfg, gen_sets, kill_sets, IsForward(analysis),
                         VisitOrder(cfg, IsForward(analysis)), in_sets, out_sets)
       IN  /\ in_sets' = st.in_sets
           /\ out_sets' = st.out_sets
           /\ changed' = st.changed
    /\ iteration' = iteration + 1
    /\ UNCHANGED <<assignment_node, target, function, block_counter, builds, cfg, last_call,
                   analysis, gen_sets, kill_sets, max_iterations, previous, pc>>

\* The loop ends; analyze returns in_sets and out_sets.
Return ==
    /\ pc = "analyze"
    /\ ~LoopContinues
    /\ pc' = "returned"
    /\ UNCHANGED <<assignment_node, target, function, block_counter, builds, cfg, last_call>>
    /\ UNCHANGED engineVars

\* Building the CFG of a function.
Init == InitBuilder(Functions)

Next == BuildCfg

Spec == Init /\ [][Next]_vars

\* Building a CFG and analysing it, as analyze_function does.
InitFlow == InitBuilder(FlowFunctions)

NextFlow ==
    \/ BuildCfg
    \/ NewReachingDefinitions
    \/ NewLiveVariables
    \/ AnalyzeDefault
    \/ AnalyzeAgain
    \/ Pass
    \/ Return

SpecFlow == InitFlow /\ [][NextFlow]_vars

\* The same, with the loop of analyze() running on to its return.
SpecFlowLive == SpecFlow /\ WF_vars(Pass) /\ WF_vars(Return)

\* ------------------------------------- the ControlFlowGraph API, by hand

InitGraph ==
    /\ function = <<>>
    /\ block_counter = 0
    /\ builds = 0
    /\ cfg = EmptyCfg
    /\ last_call = NoCall
    /\ assignment_node = NoNode /\ target = NoVar
    /\ NoAnalysis
    /\ pc = "graph"

\* cfg.add_block(block), the block's id fresh as the builder's counter makes it.
AddBlock ==
    /\ pc = "graph"
    /\ Len(cfg.blocks) < MaxGraphBlocks
    /\ cfg' = add_block(cfg, BasicBlock(Len(cfg.blocks), 1, 1, "normal", <<>>))
    /\ last_call' = NoCall
    /\ UNCHANGED <<assignment_node, target, function, block_counter, builds, pc>>
    /\ UNCHANGED engineVars

\* cfg.add_edge(from_id, to_id)
AddEdge ==
    /\ pc = "graph"
    /\ Len(cfg.edges) < MaxEdgeList
    /\ \E from_id \in 0..(MaxGraphBlocks - 1), to_id \in 0..(MaxGraphBlocks - 1) :
          /\ cfg' = add_edge(cfg, from_id, to_id)
          /\ last_call' = Call("add_edge", cfg, from_id, to_id)
    /\ UNCHANGED <<assignment_node, target, function, block_counter, builds, pc>>
    /\ UNCHANGED engineVars

\* cfg.remove_edge(from_id, to_id)
RemoveEdge ==
    /\ pc = "graph"
    /\ \E from_id \in 0..(MaxGraphBlocks - 1), to_id \in 0..(MaxGraphBlocks - 1) :
          /\ cfg' = remove_edge(cfg, from_id, to_id)
          /\ last_call' = Call("remove_edge", cfg, from_id, to_id)
    /\ UNCHANGED <<assignment_node, target, function, block_counter, builds, pc>>
    /\ UNCHANGED engineVars

NextGraph == AddBlock \/ AddEdge \/ RemoveEdge

SpecGraph == InitGraph /\ [][NextGraph]_vars

\* --------------------------------- the engine with any GEN and KILL sets

\* The element universe of the generic instance.
Elements == {"d1"}

RECURSIVE AddEdges(_, _, _)
AddEdges(c, edges, i) ==
    IF i > Len(edges) THEN c
    ELSE AddEdges(add_edge(c, edges[i][1], edges[i][2]), edges, i + 1)

\* The pairs of E as a list, by from_id then to_id.
EdgeList(E) ==
    [i \in 1..Cardinality(E) |->
        CHOOSE e \in E :
            Cardinality({f \in E : f[1] * EngineBlocks + f[2]
                                     < e[1] * EngineBlocks + e[2]}) = i - 1]

\* The CFG with blocks 0..EngineBlocks-1 and the edges E.
GraphCfg(E) ==
    AddEdges(AddBlocks(EmptyCfg,
                       [i \in 1..EngineBlocks |->
                           BasicBlock(i - 1, i, i,
                                      IF i = 1 THEN "entry" ELSE "normal", <<>>)],
                       1),
             EdgeList(E), 1)

EngineCfgs ==
    {GraphCfg(E) :
        E \in {F \in SUBSET ((0..(EngineBlocks - 1)) \X (0..(EngineBlocks - 1))) :
                   Cardinality(F) <= EngineEdges}}

InitEngine ==
    /\ function = <<>>
    /\ block_counter = 0
    /\ builds = 0
    /\ cfg \in EngineCfgs
    /\ last_call = NoCall
    /\ assignment_node = NoNode /\ target = NoVar
    /\ NoAnalysis
    /\ pc = "built"

\* An instance of a subclass whose GEN and KILL sets are any sets.
NewGenKill ==
    /\ pc = "built"
    /\ \E forward \in BOOLEAN,
          gen \in [BlockIds(cfg) -> SUBSET Elements],
          kill \in [BlockIds(cfg) -> SUBSET Elements] :
          Construct(IF forward THEN "GenKillForward" ELSE "GenKillBackward",
                    gen, kill)

AnalyzeCapped == \E m \in (0..MaxCap) \cup {DefaultMaxIterations} : Analyze(m)

NextEngine == NewGenKill \/ AnalyzeCapped \/ AnalyzeAgain \/ Pass \/ Return

SpecEngine == InitEngine /\ [][NextEngine]_vars

\* The engine called with the default cap only.
NextEngineDefault == NewGenKill \/ AnalyzeDefault \/ AnalyzeAgain \/ Pass \/ Return

\* The engine with its loop running on: analyze() is sequential code, so a
\* pass that can start does start and a finished loop returns.
SpecEngineLive ==
    InitEngine /\ [][NextEngineDefault]_vars /\ WF_vars(Pass) /\ WF_vars(Return)

\* ------------------------------------------------- assignments on their own

InitTarget ==
    /\ function = <<>>
    /\ block_counter = 0
    /\ builds = 0
    /\ cfg = EmptyCfg
    /\ last_call = NoCall
    /\ NoAnalysis
    /\ assignment_node \in AssignmentNodes
    /\ target = NoVar
    /\ pc = "node"

\* extract_definitions_from_node on an assignment node: the variable of the
\* Definition it appends, NoVar when it appends none.
ExtractDefinition ==
    /\ pc = "node"
    /\ target' = _get_assignment_target(assignment_node)
    /\ pc' = "extracted"
    /\ UNCHANGED <<assignment_node, function, block_counter, builds, cfg, last_call>>
    /\ UNCHANGED engineVars

NextTarget == ExtractDefinition

SpecTarget == InitTarget /\ [][NextTarget]_vars

\* ------------------------------------------------------------ properties

Successors(c, id) == BlockOf(c, id).successors

Predecessors(c, id) == BlockOf(c, id).predecessors

\* The blocks reached from the blocks S along one or more edges.
RECURSIVE ReachFrom(_, _)
ReachFrom(c, S) ==
    LET T == S \cup UNION {Successors(c, id) : id \in S \cap BlockIds(c)}
    IN  IF T = S THEN S ELSE ReachFrom(c, T)

Reach(c, id) == ReachFrom(c, Successors(c, id))

\* C1: in a hand-made CFG, after any add_edge and remove_edge calls, v is a
\* successor of u exactly when u is a predecessor of v, and right after
\* remove_edge(u, v) on two blocks neither holds.
C1_AdjacencySymmetric ==
    /\ \A u \in BlockIds(cfg), v \in BlockIds(cfg) :
          v \in Successors(cfg, u) <=> u \in Predecessors(cfg, v)
    /\ (/\ last_call.op = "remove_edge"
        /\ last_call.from_id \in BlockIds(cfg)
        /\ last_call.to_id \in BlockIds(cfg))
       => /\ last_call.to_id \notin Successors(cfg, last_call.from_id)
          /\ last_call.from_id \notin Predecessors(cfg, last_call.to_id)

\* An edge that existed was removed, and other edges remain.
C1_Witness ==
    /\ last_call.op = "remove_edge"
    /\ last_call.was_edge
    /\ \E u \in BlockIds(cfg) : Successors(cfg, u) # {}

\* C2: the blocks of a built CFG, in start-line order, partition the
\* function's lines: the first starts at the function's first line, the last
\* ends at its last line, no block is empty and each block starts on the line
\* after the block before it.
C2_BlocksPartitionFunction ==
    pc = "built" =>
        LET blocks == cfg.blocks
        IN  /\ blocks # <<>>
            /\ blocks[1].start_line = FnStart(function)
            /\ blocks[Len(blocks)].end_line = FnEnd(function)
            /\ \A i \in DOMAIN blocks : blocks[i].start_line <= blocks[i].end_line
            /\ \A i \in 1..(Len(blocks) - 1) :
                  blocks[i + 1].start_line = blocks[i].end_line + 1

\* The exit block of the worked example: the block holding `return z`.
ExampleExit == _find_block_by_line(cfg.blocks, Len(WorkedExample))

\* C3: in the worked example, reaching definitions' OUT of the block holding
\* `return z` has a definition of x, one of y, the true-branch definition of z
\* (line 5) and the else-branch definition of z (line 7).
C3_ExampleReachingOut ==
    (function = WorkedExample /\ analysis = "ReachingDefinitions"
        /\ pc = "returned") =>
        /\ \E d \in out_sets[ExampleExit] : d.variable = "x"
        /\ \E d \in out_sets[ExampleExit] : d.variable = "y"
        /\ \E d \in out_sets[ExampleExit] : d.variable = "z" /\ d.line = 5
        /\ \E d \in out_sets[ExampleExit] : d.variable = "z" /\ d.line = 7

\* C4: in the worked example, live variables' IN of the entry block is empty.
C4_ExampleLiveInEmpty ==
    (function = WorkedExample /\ analysis = "LiveVariables" /\ pc = "returned") =>
        in_sets[cfg.entry_block] = {}

\* The analysis of the example returned, with z live into the exit block and
\* y live into the conditional block.
C4_Witness ==
    /\ function = WorkedExample /\ analysis = "LiveVariables" /\ pc = "returned"
    /\ ~changed
    /\ in_sets[ExampleExit] = {"z"}
    /\ in_sets[_find_block_by_line(cfg.blocks, 4)] = {"y"}

Plain(fn, from_line, to_line, indent) ==
    \A k \in from_line..to_line : fn[k].kind = "assign" /\ fn[k].indent = indent

\* `if c: A else: B` followed by C at the function's top level, with A, B
\* plain statements, C a plain statement or a return; the line of the if.
IfElseThenAt(fn, i) ==
    /\ fn[i].kind = "if" /\ fn[i].indent = 1
    /\ Plain(fn, 2, i - 1, 1)
    /\ ClauseLine(fn, i, "else") # 0
    /\ Plain(fn, i + 1, ClauseLine(fn, i, "else") - 1, 2)
    /\ BodyEnd(fn, ClauseLine(fn, i, "else")) = Len(fn) - 1
    /\ Plain(fn, ClauseLine(fn, i, "else") + 1, Len(fn) - 1, 2)
    /\ fn[Len(fn)].indent = 1 /\ fn[Len(fn)].kind \in {"assign", "return"}

\* The entries of the edge list that leave the block.
OutgoingEdges(c, id) == {k \in DOMAIN c.edges : c.edges[k][1] = id}

\* C5: for `if c: A else: B` followed by C, the conditional block has exactly
\* two outgoing edges, one to A's block and one to B's block, and C's block is
\* reached from A's and from B's.
C5_IfElseEdges ==
    pc = "built" =>
        \A i \in 2..Len(function) : IfElseThenAt(function, i) =>
            LET cond == _find_block_by_line(cfg.blocks, i)
                a == _find_block_by_line(cfg.blocks, i + 1)
                b == _find_block_by_line(cfg.blocks,
                                         ClauseLine(function, i, "else") + 1)
                c == _find_block_by_line(cfg.blocks, Len(function))
            IN  /\ BlockOf(cfg, cond).block_type = "conditional"
                /\ Cardinality({cond, a, b, c}) = 4
                /\ Successors(cfg, cond) = {a, b}
                /\ Cardinality(OutgoingEdges(cfg, cond)) = 2
                /\ {cfg.edges[k] : k \in OutgoingEdges(cfg, cond)}
                       = {<<cond, a>>, <<cond, b>>}
                /\ c \in Reach(cfg, a)
                /\ c \in Reach(cfg, b)

\* A single `while` loop with plain body B followed by C; the line of the loop.
WhileThenAt(fn, i) ==
    /\ fn[i].kind = "while" /\ fn[i].indent = 1
    /\ Plain(fn, 2, i - 1, 1)
    /\ BodyEnd(fn, i) = Len(fn) - 1
    /\ Plain(fn, i + 1, Len(fn) - 1, 2)
    /\ fn[Len(fn)].indent = 1 /\ fn[Len(fn)].kind \in {"assign", "return"}

\* C6: for a single `while` loop with body B followed by C, the loop header
\* block has exactly two successors, B's block and C's block, and B's block
\* has an edge back to the header.
C6_WhileEdges ==
    pc = "built" =>
        \A i \in 2..Len(function) : WhileThenAt(function, i) =>
            LET header == _find_block_by_line(cfg.blocks, i)
                b == _find_block_by_line(cfg.blocks, i + 1)
                c == _find_block_by_line(cfg.blocks, Len(function))
            IN  /\ BlockOf(cfg, header).block_type = "loop_header"
                /\ Cardinality({header, b, c}) = 3
                /\ Successors(cfg, header) = {b, c}
                /\ header \in Successors(cfg, b)
                /\ <<b, header>> \in Range(cfg.edges)

C6_Witness ==
    /\ pc = "built"
    /\ \E i \in 2..Len(function) :
          WhileThenAt(function, i) /\ Len(function) = i + 3

\* C7: no edge occurs twice in the edge list of a CFG, built or still empty,
\* so get_edge_count() is the number of distinct edges.
C7_NoDuplicateEdges ==
    /\ \A i \in DOMAIN cfg.edges, j \in DOMAIN cfg.edges :
          i # j => cfg.edges[i] # cfg.edges[j]
    /\ get_edge_count(cfg) = Cardinality(Range(cfg.edges))

\* The engine left its loop after a pass that changed nothing.
Converged == pc = "returned" /\ ~changed

\* The blocks whose facts flow into block_id: predecessors forward,
\* successors backward.
Sources(c, forward, block_id) ==
    IF forward THEN get_predecessors(c, block_id) ELSE get_successors(c, block_id)

\* The facts at the side of a block the flow enters, from the facts at the
\* side it leaves the source blocks.
Entering(c, forward, after) ==
    [b \in BlockIds(c) |-> UNION {after[x] : x \in Sources(c, forward, b)}]

\* The dataflow equations of a GEN/KILL problem with union as meet.
IsSolution(c, gen, kill, forward, before, after) ==
    /\ before = Entering(c, forward, after)
    /\ \A b \in BlockIds(c) : after[b] = gen[b] \cup (before[b] \ kill[b])

Universe(gen, kill) ==
    UNION {gen[b] : b \in DOMAIN gen} \cup UNION {kill[b] : b \in DOMAIN kill}

VisitOrders(S) ==
    {f \in [1..Cardinality(S) -> S] : \A x \in S : \E i \in DOMAIN f : f[i] = x}

\* Passes over the blocks in the given order, from empty sets, until a pass
\* changes nothing (at most fuel passes more).
RECURSIVE PassesFrom(_, _, _, _, _, _, _, _)
PassesFrom(c, gen, kill, forward, order, ins, outs, fuel) ==
    LET st == RunPass(c, gen, kill, forward, order, ins, outs)
    IN  IF ~st.changed \/ fuel = 0
        THEN [in_sets |-> st.in_sets, out_sets |-> st.out_sets]
        ELSE PassesFrom(c, gen, kill, forward, order, st.in_sets, st.out_sets,
                        fuel - 1)

ResultInOrder(c, gen, kill, forward, order) ==
    PassesFrom(c, gen, kill, forward, order,
               [id \in BlockIds(c) |-> {}], [id \in BlockIds(c) |-> {}],
               Cardinality(BlockIds(c)) * Cardinality(Universe(gen, kill)) + 1)

\* C8: on convergence the returned sets are the least solution of the
\* dataflow equations, and passes visiting the blocks in any order converge
\* to the same sets.
C8_LeastFixedPointAnyOrder ==
    Converged =>
        LET forward == IsForward(analysis)
            before == IF forward THEN in_sets ELSE out_sets
            after == IF forward THEN out_sets ELSE in_sets
        IN  /\ IsSolution(cfg, gen_sets, kill_sets, forward, before, after)
            /\ \A A \in [BlockIds(cfg) -> SUBSET Universe(gen_sets, kill_sets)] :
                  IsSolution(cfg, gen_sets, kill_sets, forward,
                             Entering(cfg, forward, A), A)
                  => \A b \in BlockIds(cfg) :
                        /\ after[b] \subseteq A[b]
                        /\ before[b] \subseteq Entering(cfg, forward, A)[b]
            /\ \A order \in VisitOrders(BlockIds(cfg)) :
                  ResultInOrder(cfg, gen_sets, kill_sets, forward, order)
                      = [in_sets |-> in_sets, out_sets |-> out_sets]

\* Convergence took three passes, the facts flowing against the visiting
\* order, and the solution is not empty.
C8_Witness ==
    /\ Converged
    /\ iteration >= 3
    /\ \E b \in BlockIds(cfg) : in_sets[b] # {} /\ gen_sets[b] = {}

\* C9: when a forward analysis converges, IN of every block is the union of
\* the OUT sets of its predecessors (empty without predecessors) and OUT is
\* GEN with IN less KILL.
C9_ForwardEquations ==
    (Converged /\ IsForward(analysis)) =>
        \A b \in BlockIds(cfg) :
            /\ in_sets[b] = UNION {out_sets[p] : p \in get_predecessors(cfg, b)}
            /\ get_predecessors(cfg, b) = {} => in_sets[b] = {}
            /\ out_sets[b] = gen_sets[b] \cup (in_sets[b] \ kill_sets[b])

\* A converged forward analysis with a block joining two different OUT sets
\* and a block without predecessors.
C9_Witness ==
    /\ Converged /\ IsForward(analysis)
    /\ \E b \in BlockIds(cfg), p \in BlockIds(cfg), q \in BlockIds(cfg) :
          /\ {p, q} \subseteq get_predecessors(cfg, b)
          /\ out_sets[p] # out_sets[q]
          /\ in_sets[b] # {}
    /\ \E b \in BlockIds(cfg) : get_predecessors(cfg, b) = {}

C11_AnalyzeIdempotent ==
    /\ (pc = "returned" /\ previous.returned /\ previous.converged) =>
          /\ in_sets = previous.in_sets
          /\ out_sets = previous.out_sets
    /\ Converged =>
          LET st == RunPass(cfg, gen_sets, kill_sets, IsForward(analysis),
                            VisitOrder(cfg, IsForward(analysis)),
                            in_sets, out_sets)
          IN  /\ st.in_sets = in_sets
              /\ st.out_sets = out_sets
              /\ ~st.changed

\* A second call returned after a first that converged in three passes to
\* sets that are not all empty.
C11_Witness ==
    /\ pc = "returned" /\ previous.returned /\ previous.converged
    /\ iteration >= 3
    /\ \E b \in BlockIds(cfg) : previous.in_sets[b] # {}
    /\ \E b \in BlockIds(cfg) : previous.out_sets[b] # {}

\* C12: with a cap large enough (the default), the pass loop reaches a full
\* pass that changes no set and analyze() returns by convergence, forward
\* and backward.
C12_LoopConverges ==
    (pc = "analyze" /\ max_iterations = DefaultMaxIterations) ~> Converged

\* An analysis of a CFG with a self-loop on a block that kills converged
\* under the default cap in its third pass.
C12_Witness ==
    /\ Converged
    /\ max_iterations = DefaultMaxIterations
    /\ iteration = 3
    /\ \E b \in BlockIds(cfg) : b \in get_successors(cfg, b) /\ kill_sets[b] # {}

\* The sets after n passes over the blocks in the order, from ins and outs.
RECURSIVE AfterPasses(_, _, _, _, _, _, _, _)
AfterPasses(c, gen, kill, forward, order, ins, outs, n) ==
    IF n = 0 THEN [in_sets |-> ins, out_sets |-> outs]
    ELSE LET st == RunPass(c, gen, kill, forward, order, ins, outs)
         IN  AfterPasses(c, gen, kill, forward, order,
                         st.in_sets, st.out_sets, n - 1)

\* C13: analyze(max_iterations) makes at most max_iterations passes; it
\* always returns, also when the cap is reached with the last pass still
\* changing a set, and what it returns are the sets as the last pass left
\* them; with a cap of 0 no pass runs and every set is empty.
C13_CapReturnsLastSets ==
    /\ pc \in {"built", "constructed", "analyze", "returned"}
    /\ pc \in {"analyze", "returned"} => iteration <= max_iterations
    /\ pc = "returned" =>
          /\ changed => iteration = max_iterations
          /\ [in_sets |-> in_sets, out_sets |-> out_sets]
                = AfterPasses(cfg, gen_sets, kill_sets, IsForward(analysis),
                              VisitOrder(cfg, IsForward(analysis)),
                              [id \in BlockIds(cfg) |-> {}],
                              [id \in BlockIds(cfg) |-> {}], iteration)
          /\ max_iterations = 0 =>
                /\ iteration = 0
                /\ \A b \in BlockIds(cfg) : in_sets[b] = {} /\ out_sets[b] = {}

\* analyze() returned at the cap after a pass that still changed a set, with
\* sets that do not solve the equations yet.
C13_Witness ==
    /\ pc = "returned" /\ changed
    /\ max_iterations >= 1 /\ iteration = max_iterations
    /\ ~IsSolution(cfg, gen_sets, kill_sets, IsForward(analysis),
                   IF IsForward(analysis) THEN in_sets ELSE out_sets,
                   IF IsForward(analysis) THEN out_sets ELSE in_sets)

\* C14: constructing a ReachingDefinitions or LiveVariables instance and
\* running analyze() leave the ControlFlowGraph as it was (blocks with all
\* their fields, entry block, exit blocks, edge list), and analyze() leaves
\* the GEN and KILL sets as the constructor computed them.
C14_AnalysisLeavesCfg ==
    [][/\ pc' \in {"constructed", "analyze", "returned"} =>
              cfg' = cfg /\ function' = function
       /\ pc' \in {"analyze", "returned"} =>
              gen_sets' = gen_sets /\ kill_sets' = kill_sets]_vars

\* An analysis of a CFG with edges returned after facts moved between
\* blocks: some OUT set is not the block's GEN set.
C14_Witness ==
    /\ pc = "returned" /\ ~changed
    /\ analysis \in {"ReachingDefinitions", "LiveVariables"}
    /\ cfg.edges # <<>>
    /\ \E b \in BlockIds(cfg) : gen_sets[b] # {}
    /\ \E b \in BlockIds(cfg) : out_sets[b] # {} /\ out_sets[b] # gen_sets[b]

\* The lines of the function inside some statement collected in the block.
StatementLines(c, b) ==
    {l \in 1..Len(function) :
        \E i \in DOMAIN BlockOf(c, b).statements :
            /\ BlockOf(c, b).statements[i].line <= l
            /\ l <= BlockOf(c, b).statements[i].end_line}

\* The definitions extracted from the statements of block b.
DefinitionsOf(c, b) ==
    {[variable |-> function[l].def, line |-> l, block_id |-> b] :
        l \in {k \in StatementLines(c, b) : function[k].def # NoVar}}

AllDefinitions(c) == UNION {DefinitionsOf(c, b) : b \in BlockIds(c)}

\* C15: in ReachingDefinitions GEN[b] is the set of definitions extracted
\* from b's statements, KILL[b] the definitions extracted from the other
\* blocks whose variable b defines too, the transfer function is GEN[b] with
\* the input less KILL[b], and the meet is union.
C15_ReachingGenKill ==
    (analysis = "ReachingDefinitions" /\ pc \in {"constructed", "returned"}) =>
        /\ \A b \in BlockIds(cfg) :
              /\ gen_sets[b] = DefinitionsOf(cfg, b)
              /\ kill_sets[b] =
                    {d \in UNION {DefinitionsOf(cfg, o) : o \in BlockIds(cfg) \ {b}} :
                        \E e \in DefinitionsOf(cfg, b) : e.variable = d.variable}
              /\ \A S \in SUBSET AllDefinitions(cfg) :
                    _transfer_function(gen_sets, kill_sets, b, S)
                        = gen_sets[b] \cup (S \ kill_sets[b])
        /\ \A S \in SUBSET AllDefinitions(cfg), T \in SUBSET AllDefinitions(cfg) :
              _meet_operation({S, T}) = S \cup T

\* Reaching definitions returned for a function where a definition reaches
\* a block that kills it and generates another of the same variable.
C15_Witness ==
    /\ analysis = "ReachingDefinitions" /\ pc = "returned"
    /\ \E b \in BlockIds(cfg) :
          \E d \in in_sets[b] \cap kill_sets[b] :
              /\ d \notin out_sets[b]
              /\ \E e \in gen_sets[b] : e.variable = d.variable

\* The variables defined, and the variables read, on the lines of the
\* statements of block b.
DefinedIn(c, b) ==
    {function[l].def : l \in {k \in StatementLines(c, b) : function[k].def # NoVar}}

UsedIn(c, b) == UNION {function[l].uses : l \in StatementLines(c, b)}

AllVariables(c) == UNION {DefinedIn(c, b) \cup UsedIn(c, b) : b \in BlockIds(c)}

Pos(c, b) == CHOOSE i \in DOMAIN c.blocks : c.blocks[i].id = b

\* t is the first block of the list that starts after the last line of a.
NextInLines(c, a, t) ==
    /\ BlockOf(c, t).start_line > BlockOf(c, a).end_line
    /\ \A u \in BlockIds(c) :
          BlockOf(c, u).start_line > BlockOf(c, a).end_line => Pos(c, t) <= Pos(c, u)

\* t is the first block of the list that contains the line.
Holds(c, t, line) ==
    /\ BlockOf(c, t).start_line <= line /\ line <= BlockOf(c, t).end_line
    /\ \A u \in BlockIds(c) :
          (BlockOf(c, u).start_line <= line /\ line <= BlockOf(c, u).end_line)
              => Pos(c, t) <= Pos(c, u)

\* The first statement of block a with one of the types, as a set.
FirstOfType(c, a, types) ==
    LET stmts == BlockOf(c, a).statements
        at == {i \in DOMAIN stmts : stmts[i].type \in types}
    IN  IF at = {} THEN {} ELSE {stmts[Min(at)]}

\* The line the false branch of an if statement goes to.
FalseLine(stmt) ==
    IF FindElseClause(function, stmt) # 0 THEN FindElseClause(function, stmt)
    ELSE stmt.end_line + 1

\* The edge (a, t) is one the rules of the builder ask for, and t exists.
Wanted(c, a, t) ==
    \/ /\ BlockOf(c, a).block_type # "exit"
       /\ FirstOfType(c, a, TransferTypes) = {}
       /\ Pos(c, t) = Pos(c, a) + 1
    \/ /\ BlockOf(c, a).block_type = "conditional"
       /\ \E stmt \in FirstOfType(c, a, {"if_statement"}) :
             NextInLines(c, a, t) \/ Holds(c, t, FalseLine(stmt))
    \/ /\ BlockOf(c, a).block_type = "loop_header"
       /\ \/ NextInLines(c, a, t)
          \/ \E stmt \in FirstOfType(c, a, LoopTypes) : Holds(c, t, stmt.end_line + 1)
    \/ /\ BlockOf(c, t).block_type = "loop_header"
       /\ BlockOf(c, a).block_type = "loop_body"
       /\ NextInLines(c, t, a)

\* No lookup of the builder or of the engine misses: every edge joins two
\* blocks, the graph build_cfg returns holds a block for every leader and
\* exactly the edges whose target exists, and the dictionaries of the
\* analysis have an entry for every block.
NothingRaised ==
    /\ \A i \in DOMAIN cfg.edges :
          cfg.edges[i][1] \in BlockIds(cfg) /\ cfg.edges[i][2] \in BlockIds(cfg)
    /\ \A b \in BlockIds(cfg) :
          BlockOf(cfg, b).successors \cup BlockOf(cfg, b).predecessors
              \subseteq BlockIds(cfg)
    /\ pc = "built" =>
          /\ Len(cfg.blocks) = Cardinality(_identify_leaders(function))
          /\ \A a \in BlockIds(cfg), t \in BlockIds(cfg) :
                <<a, t>> \in Range(cfg.edges) <=> Wanted(cfg, a, t)
    /\ pc \in {"constructed", "analyze", "returned"} =>
          DOMAIN gen_sets = BlockIds(cfg) /\ DOMAIN kill_sets = BlockIds(cfg)
    /\ pc \in {"analyze", "returned"} =>
          DOMAIN in_sets = BlockIds(cfg) /\ DOMAIN out_sets = BlockIds(cfg)

\* C17: build_cfg followed by the two analyses completes without raising;
\* an edge whose target does not exist is omitted and the rest of the graph
\* is built, and every analyze() call returns.
C17_CompletesWithoutRaising ==
    /\ []NothingRaised
    /\ (pc = "analyze") ~> (pc = "returned")

\* Live variables returned, on the graph of a function whose if statement or
\* loop ends on the last line: no block holds the line after it, and the
\* header block has its other edges.
C17_Witness ==
    /\ pc = "returned" /\ analysis = "LiveVariables"
    /\ \E a \in BlockIds(cfg) :
          /\ BlockOf(cfg, a).block_type \in {"conditional", "loop_header"}
          /\ \E stmt \in FirstOfType(cfg, a, {"if_statement"} \cup LoopTypes) :
                /\ FindElseClause(function, stmt) = 0
                /\ \A t \in BlockIds(cfg) : ~Holds(cfg, t, stmt.end_line + 1)
          /\ BlockOf(cfg, a).successors # {}

\* C18: in every CFG build_cfg returns the block ids are unique, consecutive
\* and increase with the start line, and they are the ids the first build_cfg
\* call of a builder gives to the function, whatever calls were made on the
\* builder before.
C18_IdsPerBuild ==
    pc = "built" =>
        /\ \A i \in DOMAIN cfg.blocks, j \in DOMAIN cfg.blocks :
              /\ (i # j => cfg.blocks[i].id # cfg.blocks[j].id)
              /\ (j = i + 1 => cfg.blocks[j].id = cfg.blocks[i].id + 1)
              /\ (cfg.blocks[i].start_line < cfg.blocks[j].start_line
                     => cfg.blocks[i].id < cfg.blocks[j].id)
        /\ BlockOrder(cfg) = BlockOrder(build_cfg(function, 0))

\* The block after block a in line order, as a set (empty for the last).
NextBlock(c, a) == {t \in BlockIds(c) : Pos(c, t) = Pos(c, a) + 1}

\* C19, as stated: a block that is not the last has an edge to the next
\* block exactly when it is no Exit block and none of its statements is a
\* return, break, continue or raise statement.
C19_EdgeToNextIffNoTransfer ==
    pc = "built" =>
        \A a \in BlockIds(cfg) : \A t \in NextBlock(cfg, a) :
            <<a, t>> \in Range(cfg.edges)
                <=> /\ BlockOf(cfg, a).block_type # "exit"
                    /\ \A i \in DOMAIN BlockOf(cfg, a).statements :
                          BlockOf(cfg, a).statements[i].type
                              \notin {"return_statement", "break_statement",
                                      "continue_statement", "raise_statement"}

\* How many times the edge list holds (a, t).
CountEdges(c, a, t) == Cardinality({i \in DOMAIN c.edges : c.edges[i] = <<a, t>>})

Bit(p) == IF p THEN 1 ELSE 0

\* How many edges from a to t the rules for Conditional and Loop-header
\* blocks ask for.
RuleEdges(c, a, t) ==
    (IF BlockOf(c, a).block_type = "conditional"
        /\ FirstOfType(c, a, {"if_statement"}) # {}
     THEN Bit(NextInLines(c, a, t))
          + Bit(\E stmt \in FirstOfType(c, a, {"if_statement"}) :
                    Holds(c, t, FalseLine(stmt)))
     ELSE 0)
    + (IF BlockOf(c, a).block_type = "loop_header"
       THEN Bit(NextInLines(c, a, t))
            + Bit(\E stmt \in FirstOfType(c, a, LoopTypes) :
                      Holds(c, t, stmt.end_line + 1))
       ELSE 0)
    + Bit(/\ BlockOf(c, t).block_type = "loop_header"
          /\ BlockOf(c, a).block_type = "loop_body"
          /\ NextInLines(c, t, a))

NoTransferStatement(c, a) ==
    \A i \in DOMAIN BlockOf(c, a).statements :
        BlockOf(c, a).statements[i].type
            \notin {"return_statement", "break_statement",
                    "continue_statement", "raise_statement"}

\* C19, amended: apart from the edges the rules for Conditional and
\* Loop-header blocks add, a block that is not the last has one more edge to
\* the next block exactly when it is no Exit block and none of its statements
\* is a return, break, continue or raise statement, and none otherwise.
C19_FallthroughIffNoTransfer ==
    pc = "built" =>
        \A a \in BlockIds(cfg) : \A t \in NextBlock(cfg, a) :
            CountEdges(cfg, a, t) - RuleEdges(cfg, a, t)
                = Bit(BlockOf(cfg, a).block_type # "exit" /\ NoTransferStatement(cfg, a))

\* A graph with a block holding a raise statement and no edge to the block
\* after it, and a Conditional block holding a return statement whose only
\* edges to the block after it are those of the rule for Conditional blocks.
C19_Witness ==
    /\ pc = "built"
    /\ \E a \in BlockIds(cfg) : \E t \in NextBlock(cfg, a) :
          /\ BlockOf(cfg, a).block_type # "exit"
          /\ \E i \in DOMAIN BlockOf(cfg, a).statements :
                BlockOf(cfg, a).statements[i].type = "raise_statement"
          /\ CountEdges(cfg, a, t) = 0
    /\ \E a \in BlockIds(cfg) : \E t \in NextBlock(cfg, a) :
          /\ BlockOf(cfg, a).block_type = "conditional"
          /\ ~NoTransferStatement(cfg, a)
          /\ CountEdges(cfg, a, t) = RuleEdges(cfg, a, t)
          /\ CountEdges(cfg, a, t) > 0

\* The if statement of a Conditional block, as a set.
IfOf(c, a) == FirstOfType(c, a, {"if_statement"})

\* The line of the else clause of an if statement, as a set.
ElseLineOf(stmt) ==
    {l \in (stmt.line + 1)..stmt.end_line :
        function[l].kind = "else" /\ function[l].indent = function[stmt.line].indent}

\* C20: a Conditional block has an edge to the next block in line order and,
\* when its if statement has an else clause, an edge to the block holding
\* the line of the else clause, and otherwise an edge to the block holding
\* the line after the if statement; a target that does not exist gives no
\* edge, and the block has no edge to any other block.
C20_ConditionalEdges ==
    pc = "built" =>
        \A a \in BlockIds(cfg) :
            BlockOf(cfg, a).block_type = "conditional" =>
                /\ IfOf(cfg, a) # {}
                /\ \A stmt \in IfOf(cfg, a) : \A t \in BlockIds(cfg) :
                      LET true_branch == NextInLines(cfg, a, t)
                          else_branch == \E l \in ElseLineOf(stmt) : Holds(cfg, t, l)
                          after_if == /\ ElseLineOf(stmt) = {}
                                      /\ Holds(cfg, t, stmt.end_line + 1)
                      IN  /\ true_branch => <<a, t>> \in Range(cfg.edges)
                          /\ else_branch => <<a, t>> \in Range(cfg.edges)
                          /\ after_if => <<a, t>> \in Range(cfg.edges)
                          /\ <<a, t>> \in Range(cfg.edges) =>
                                \/ true_branch \/ else_branch \/ after_if
                                \/ t \in NextBlock(cfg, a)

\* A graph with a Conditional block whose if statement has no else clause
\* and a body on its own lines: the block after the if statement is not the
\* next block, and the Conditional block has an edge to each.
C20_Witness ==
    /\ pc = "built"
    /\ \E a \in BlockIds(cfg) :
          /\ BlockOf(cfg, a).block_type = "conditional"
          /\ \E stmt \in IfOf(cfg, a) : \E t \in BlockIds(cfg), n \in BlockIds(cfg) :
                /\ ElseLineOf(stmt) = {}
                /\ Holds(cfg, t, stmt.end_line + 1)
                /\ NextInLines(cfg, a, n)
                /\ n # t
                /\ {<<a, n>>, <<a, t>>} \subseteq Range(cfg.edges)

\* C21: a Loop-header block has an edge to the next block in line order and,
\* when a block holds the line after the last line of its loop statement, an
\* edge to that block; the next block has an edge back to the header exactly
\* when it is typed LoopBody.
C21_LoopHeaderEdges ==
    pc = "built" =>
        \A a \in BlockIds(cfg) :
            BlockOf(cfg, a).block_type = "loop_header" =>
                /\ FirstOfType(cfg, a, LoopTypes) # {}
                /\ \A t \in BlockIds(cfg) :
                      /\ NextInLines(cfg, a, t) =>
                            /\ <<a, t>> \in Range(cfg.edges)
                            /\ <<t, a>> \in Range(cfg.edges)
                                  <=> BlockOf(cfg, t).block_type = "loop_body"
                      /\ (\E stmt \in FirstOfType(cfg, a, LoopTypes) :
                              Holds(cfg, t, stmt.end_line + 1))
                            => <<a, t>> \in Range(cfg.edges)

\* A graph with a loop whose body starts with an if statement: the block
\* after the header is typed Conditional and has no edge back to the header.
C21_Witness ==
    /\ pc = "built"
    /\ \E a \in BlockIds(cfg), t \in BlockIds(cfg) :
          /\ BlockOf(cfg, a).block_type = "loop_header"
          /\ NextInLines(cfg, a, t)
          /\ BlockOf(cfg, t).block_type = "conditional"
          /\ <<a, t>> \in Range(cfg.edges)
          /\ <<t, a>> \notin Range(cfg.edges)
          /\ a \notin BlockOf(cfg, t).successors

\* A node of one of the types starts on the line.
StartsOn(line, types) ==
    \E i \in DOMAIN AllNodes(function) :
        AllNodes(function)[i].line = line /\ AllNodes(function)[i].type \in types

\* The type the precedence gives to a block starting on the line.
TypeByPrecedence(line) ==
    IF line = FnStart(function) THEN "entry"
    ELSE IF StartsOn(line, {"if_statement"}) THEN "conditional"
    ELSE IF StartsOn(line, {"while_statement", "for_statement"}) THEN "loop_header"
    ELSE IF StartsOn(line, {"return_statement"}) THEN "exit"
    ELSE IF StartsOn(line, {"try_statement"}) THEN "exception"
    ELSE IF \E i \in DOMAIN AllNodes(function) :
                /\ AllNodes(function)[i].type \in {"while_statement", "for_statement"}
                /\ AllNodes(function)[i].line < line
                /\ line <= AllNodes(function)[i].end_line
         THEN "loop_body"
    ELSE "normal"

\* C22: the type of a block is decided from its start line with the
\* precedence Entry, Conditional, LoopHeader, Exit, Exception, LoopBody,
\* Normal; a line on which a return and a try statement start gives Exit.
C22_TypePrecedence ==
    pc = "built" =>
        \A b \in BlockIds(cfg) :
            BlockOf(cfg, b).block_type = TypeByPrecedence(BlockOf(cfg, b).start_line)

\* The identifiers in an expression.
RECURSIVE IdentifiersIn(_)
IdentifiersIn(e) ==
    IF e.type = "identifier" THEN {e.text}
    ELSE UNION {IdentifiersIn(e.children[i]) : i \in DOMAIN e.children}

\* C23: the definition extracted from an assignment names its target: the
\* identifier when the target is one, the identifier at the base when it is
\* an attribute or a subscript; an identifier that occurs only on the
\* right-hand side is never the defined variable.
C23_TargetIsLeftHandSide ==
    pc = "extracted" =>
        LET left == assignment_node.children[1]
        IN  /\ left.type = "identifier" => target = left.text
            /\ (left.type \in {"attribute", "subscript"}
                   /\ left.children[1].type = "identifier")
                  => target = left.children[1].text
            /\ target # NoVar => target \in IdentifiersIn(left)

\* The function holds no if, loop, try, return, break or continue statement.
StraightLine ==
    /\ Len(function) >= 1
    /\ \A i \in 2..Len(function) : function[i].kind \in {"assign", "raise"}

\* C24: the CFG of a function without control statements on lines 1..N has
\* one block, typed Entry, with range [1, N], no edge, and empty successor
\* and predecessor sets.
C24_StraightLineOneBlock ==
    (pc = "built" /\ StraightLine) =>
        /\ Len(cfg.blocks) = 1
        /\ cfg.blocks[1].block_type = "entry"
        /\ cfg.blocks[1].start_line = 1
        /\ cfg.blocks[1].end_line = Len(function)
        /\ cfg.edges = <<>>
        /\ cfg.blocks[1].successors = {}
        /\ cfg.blocks[1].predecessors = {}

\* The graph of a function of four lines, an assignment and a raise
\* statement among them.
C24_Witness ==
    /\ pc = "built"
    /\ StraightLine
    /\ Len(function) = 4
    /\ \E i \in 2..4 : function[i].kind = "raise"
    /\ \E i \in 2..4 : function[i].kind = "assign"
    /\ Len(cfg.blocks) = 1

\* The facts of the analysis instance: definitions or variables.
Facts ==
    IF analysis = "ReachingDefinitions" THEN AllDefinitions(cfg) ELSE AllVariables(cfg)

\* C25: the transfer functions of ReachingDefinitions and LiveVariables are
\* monotone: a larger input set never gives a smaller result.
C25_TransferMonotone ==
    (analysis \in {"ReachingDefinitions", "LiveVariables"} /\ pc = "constructed") =>
        \A b \in BlockIds(cfg) :
            \A S2 \in SUBSET Facts : \A S1 \in SUBSET S2 :
                _transfer_function(gen_sets, kill_sets, b, S1)
                    \subseteq _transfer_function(gen_sets, kill_sets, b, S2)

\* A live-variables instance with a block that generates and kills, and two
\* inputs, one inside the other, with different results.
C25_Witness ==
    /\ analysis = "LiveVariables" /\ pc = "constructed"
    /\ \E b \in BlockIds(cfg) :
          /\ gen_sets[b] # {} /\ kill_sets[b] # {}
          /\ \E S2 \in SUBSET Facts : \E S1 \in SUBSET S2 :
                /\ S1 # {} /\ S1 # S2
                /\ _transfer_function(gen_sets, kill_sets, b, S1)
                      # _transfer_function(gen_sets, kill_sets, b, S2)

\* C26: after any add_edge and remove_edge calls the edge list and the
\* adjacency sets agree: (u, v) is in the list exactly when v is a successor
\* of u, and the pair just removed is not in the list.
C26_EdgeListMatchesAdjacency ==
    pc = "graph" =>
        /\ \A u \in BlockIds(cfg), v \in BlockIds(cfg) :
              <<u, v>> \in Range(cfg.edges) <=> v \in BlockOf(cfg, u).successors
        /\ (last_call.op = "remove_edge"
               /\ last_call.from_id \in BlockIds(cfg) /\ last_call.to_id \in BlockIds(cfg))
              => <<last_call.from_id, last_call.to_id>> \notin Range(cfg.edges)

\* C27: every definition in GEN[b] of a ReachingDefinitions instance has its
\* line inside the range of b, and the definitions of one line are in the
\* GEN set of one block only.
C27_GenInsideBlock ==
    (analysis = "ReachingDefinitions" /\ pc = "constructed") =>
        /\ \A b \in BlockIds(cfg) : \A d \in gen_sets[b] :
              BlockOf(cfg, b).start_line <= d.line /\ d.line <= BlockOf(cfg, b).end_line
        /\ \A b \in BlockIds(cfg), o \in BlockIds(cfg) :
              \A d \in gen_sets[b], e \in gen_sets[o] :
                  (d.line = e.line /\ d.variable = e.variable) => b = o

EntryBlocks(c) == {b \in BlockIds(c) : BlockOf(c, b).block_type = "entry"}

\* C28: a graph returned by build_cfg has exactly one Entry block, which is
\* entry_block, starts before every other block and is first in the block
\* list, and which no edge targets.
C28_OneEntryBlock ==
    pc = "built" =>
        /\ Cardinality(EntryBlocks(cfg)) = 1
        /\ EntryBlocks(cfg) = {cfg.entry_block}
        /\ cfg.blocks[1].id = cfg.entry_block
        /\ \A b \in BlockIds(cfg) \ {cfg.entry_block} :
              BlockOf(cfg, cfg.entry_block).start_line < BlockOf(cfg, b).start_line
        /\ BlockOf(cfg, cfg.entry_block).predecessors = {}
        /\ \A i \in DOMAIN cfg.edges : cfg.edges[i][2] # cfg.entry_block
        /\ \A b \in BlockIds(cfg) : cfg.entry_block \notin BlockOf(cfg, b).successors

\* A second build, whose entry block is not block 0, of a function with a
\* loop back edge and a branch.
C28_Witness ==
    /\ pc = "built"
    /\ builds = 2
    /\ cfg.entry_block # 0
    /\ BlockOf(cfg, cfg.entry_block).block_type = "entry"
    /\ \E h \in BlockIds(cfg), t \in BlockIds(cfg) :
          /\ BlockOf(cfg, h).block_type = "loop_header"
          /\ BlockOf(cfg, t).start_line > BlockOf(cfg, h).start_line
          /\ <<t, h>> \in Range(cfg.edges)
    /\ \E b \in BlockIds(cfg) : BlockOf(cfg, b).block_type = "conditional"

ExitTyped(c) == {b \in BlockIds(c) : BlockOf(c, b).block_type = "exit"}

\* C29: in a graph returned by build_cfg, exit_blocks is the set of the ids
\* of the blocks typed Exit, and no edge leaves a block typed Exit.
C29_ExitBlocks ==
    pc = "built" =>
        /\ cfg.exit_blocks = ExitTyped(cfg)
        /\ \A b \in ExitTyped(cfg) :
              /\ BlockOf(cfg, b).successors = {}
              /\ \A i \in DOMAIN cfg.edges : cfg.edges[i][1] # b
              /\ \A o \in BlockIds(cfg) : b \notin BlockOf(cfg, o).predecessors

\* An Exit block that is the first block after a Loop Header and is followed
\* by another block.
C29_Witness ==
    /\ pc = "built"
    /\ \E h \in BlockIds(cfg), b \in cfg.exit_blocks, n \in BlockIds(cfg) :
          /\ BlockOf(cfg, h).block_type = "loop_header"
          /\ NextInLines(cfg, h, b)
          /\ NextInLines(cfg, b, n)
          /\ BlockOf(cfg, b).block_type = "exit"

\* C30: at every pass of ReachingDefinitions.analyze() and at its return,
\* every definition in OUT[b] is in the GEN set of the block it names, which
\* is b or a block with a path of edges to b, and every definition in IN[b]
\* is in OUT[p] of a predecessor p of b.
C30_ReachingAlongPaths ==
    (analysis = "ReachingDefinitions" /\ pc \in {"analyze", "returned"}) =>
        \A b \in BlockIds(cfg) :
            /\ \A d \in out_sets[b] :
                  /\ d.block_id \in BlockIds(cfg)
                  /\ d \in gen_sets[d.block_id]
                  /\ (d.block_id = b \/ b \in Reach(cfg, d.block_id))
            /\ \A d \in in_sets[b] :
                  \E p \in Predecessors(cfg, b) : d \in out_sets[p]

\* A returned analysis in which a definition of another block comes into a
\* block and a block kills a definition that comes in.
C30_Witness ==
    /\ analysis = "ReachingDefinitions" /\ pc = "returned"
    /\ \E b \in BlockIds(cfg) : \E d \in in_sets[b] :
          /\ d.block_id # b
          /\ d \in out_sets[b]
    /\ \E b \in BlockIds(cfg) : in_sets[b] \ out_sets[b] # {}

=============================================================================
